---- MODULE Spec2Model ----
(***************************************************************************)
(* Travel planner (src/app.py): GeminiAPI.generate_text and the four       *)
(* TravelPlanner methods parse_travel_preferences, generate_itinerary,     *)
(* get_travel_tips and plan_trip, as one state machine.                    *)
(*                                                                         *)
(* Python str values are TLA+ strings; str methods are operators that      *)
(* compute what CPython computes.  A Python call that may raise returns a  *)
(* record [ok, val, exc]: ok = FALSE carries the exception in exc.         *)
(* The HTTP endpoint is the environment: every requests.post is answered   *)
(* by a response drawn from a bounded set (or by a transport error).       *)
(***************************************************************************)
EXTENDS Integers, Sequences, FiniteSets, TLC

(***************************************************************************)
(* Bounds                                                                  *)
(***************************************************************************)
\* user texts are built from at most MaxWords words of Words
MaxWords == 2
\* objects returned by the language model nest at most MaxDepth deep
MaxDepth == 1

(***************************************************************************)
(* Python str operations                                                   *)
(***************************************************************************)
\* characters removed by str.strip() that occur in the texts of this model
Whitespace == {" ", "\n", "\t", "\r"}

\* s[i:i+1] with a 1-based index: the empty str past either end
CharAt(s, i) == IF 1 <= i /\ i <= Len(s) THEN SubSeq(s, i, i) ELSE ""

\* s[i:] with a 1-based index
From(s, i) == SubSeq(s, i, Len(s))

\* s.startswith(p)
StartsWith(s, p) == Len(p) <= Len(s) /\ SubSeq(s, 1, Len(p)) = p

\* s.endswith(p)
EndsWith(s, p) == Len(p) <= Len(s) /\ SubSeq(s, Len(s) - Len(p) + 1, Len(s)) = p

\* sub occurs in s at the 1-based index j
OccursAt(s, sub, j) == SubSeq(s, j, j + Len(sub) - 1) = sub

\* s.find(sub, i): the lowest 1-based index >= i where sub occurs, 0 if none
Find(s, sub, i) ==
    IF \E j \in i..(Len(s) - Len(sub) + 1) : OccursAt(s, sub, j)
    THEN CHOOSE j \in i..(Len(s) - Len(sub) + 1) :
            OccursAt(s, sub, j) /\ \A h \in i..(j - 1) : ~OccursAt(s, sub, h)
    ELSE 0

\* sub in s
Contains(s, sub) == \E j \in 1..(Len(s) - Len(sub) + 1) : OccursAt(s, sub, j)

\* s.split(sep, maxsplit) from index i; maxsplit = -1 is "no limit".
\* The scan is left to right and the matches do not overlap; j is where
\* the next separator starts, 0 if there is none or no split is left.
RECURSIVE SplitFrom(_, _, _, _)
SplitAt(s, sep, i, maxsplit, j) ==
    IF j = 0 THEN << From(s, i) >>
    ELSE << SubSeq(s, i, j - 1) >>
         \o SplitFrom(s, sep, j + Len(sep), IF maxsplit > 0 THEN maxsplit - 1 ELSE maxsplit)
SplitFrom(s, sep, i, maxsplit) ==
    SplitAt(s, sep, i, maxsplit, IF maxsplit = 0 THEN 0 ELSE Find(s, sep, i))

\* s.split(sep)
Split(s, sep) == SplitFrom(s, sep, 1, -1)

\* s.split(sep, 1)
Split1(s, sep) == SplitFrom(s, sep, 1, 1)

RECURSIVE LStrip(_)
LStrip(s) == IF Len(s) > 0 /\ CharAt(s, 1) \in Whitespace THEN LStrip(From(s, 2)) ELSE s

RECURSIVE RStrip(_)
RStrip(s) ==
    IF Len(s) > 0 /\ CharAt(s, Len(s)) \in Whitespace THEN RStrip(SubSeq(s, 1, Len(s) - 1)) ELSE s

\* s.strip()
Strip(s) == RStrip(LStrip(s))

(***************************************************************************)
(* Python values held in a preferences record                              *)
(*   t = "str":  the str s                                                 *)
(*   t = "list": the list of the values l                                  *)
(*   t = "dict": the dict of the pairs d, in insertion order               *)
(* A dict is a sequence of pairs [k, v] with no key twice.                 *)
(***************************************************************************)
StrVal(x) == [t |-> "str", s |-> x, l |-> <<>>, d |-> <<>>]
ListVal(xs) == [t |-> "list", s |-> "", l |-> xs, d |-> <<>>]
DictVal(ps) == [t |-> "dict", s |-> "", l |-> <<>>, d |-> ps]

HasKey(dict, key) == \E i \in 1..Len(dict) : dict[i].k = key

\* dict[key], for a key the dict has
Lookup(dict, key) == dict[CHOOSE i \in 1..Len(dict) : dict[i].k = key].v

\* dict[key] = val: a key already present keeps its place and takes the new value
DictSet(dict, key, val) ==
    IF HasKey(dict, key)
    THEN [i \in 1..Len(dict) |-> IF dict[i].k = key THEN [k |-> key, v |-> val] ELSE dict[i]]
    ELSE Append(dict, [k |-> key, v |-> val])

\* repr(s) of a str without backslashes or control characters
ReprStr(x) ==
    IF Contains(x, "'") /\ ~Contains(x, "\"") THEN "\"" \o x \o "\"" ELSE "'" \o x \o "'"

RECURSIVE PyRepr(_)
RECURSIVE JoinRepr(_, _)
RECURSIVE JoinPairs(_, _)
\* ", ".join(repr(x) for x in xs[i:])
JoinRepr(xs, i) ==
    IF i > Len(xs) THEN ""
    ELSE PyRepr(xs[i]) \o (IF i < Len(xs) THEN ", " ELSE "") \o JoinRepr(xs, i + 1)
JoinPairs(ps, i) ==
    IF i > Len(ps) THEN ""
    ELSE ReprStr(ps[i].k) \o ": " \o PyRepr(ps[i].v)
         \o (IF i < Len(ps) THEN ", " ELSE "") \o JoinPairs(ps, i + 1)
\* repr(v)
PyRepr(v) ==
    CASE v.t = "str" -> ReprStr(v.s)
      [] v.t = "list" -> "[" \o JoinRepr(v.l, 1) \o "]"
      [] v.t = "dict" -> "{" \o JoinPairs(v.d, 1) \o "}"

\* str(v), what an f-string puts in place of {v}
PyStr(v) == IF v.t = "str" THEN v.s ELSE PyRepr(v)

\* f"{dict.get(key)}": a missing key gives None
FmtGet(dict, key) == IF HasKey(dict, key) THEN PyStr(Lookup(dict, key)) ELSE "None"

\* f"{dict.get(key, '')}"
FmtGetOrEmpty(dict, key) == IF HasKey(dict, key) THEN PyStr(Lookup(dict, key)) ELSE ""

(***************************************************************************)
(* Exceptions                                                              *)
(***************************************************************************)
Exc(type, msg) == [type |-> type, msg |-> msg]
NoExc == Exc("", "")
\* list[i] with i past the end
IndexError == Exc("IndexError", "list index out of range")
\* dict[key] with a missing key; str(KeyError(key)) is repr(key)
KeyError(key) == Exc("KeyError", ReprStr(key))
\* json.JSONDecodeError; the " line L column C (char N)" tail of its message is left out
JSONDecodeError(msg) == Exc("JSONDecodeError", msg)

(***************************************************************************)
(* json.loads, for the JSON texts of this model: objects, arrays and       *)
(* strings without escapes (no numbers, no true/false/null).               *)
(* A parse result is [ok, val, pos, exc]: pos is the index after the value.*)
(***************************************************************************)
POk(val, pos) == [ok |-> TRUE, val |-> val, pos |-> pos, exc |-> NoExc]
PFail(msg) == [ok |-> FALSE, val |-> StrVal(""), pos |-> 0, exc |-> JSONDecodeError(msg)]

RECURSIVE SkipWs(_, _)
SkipWs(s, i) == IF i <= Len(s) /\ CharAt(s, i) \in Whitespace THEN SkipWs(s, i + 1) ELSE i

\* characters a JSON string cannot hold unescaped
BadInString(x) == Contains(x, "\\") \/ Contains(x, "\n") \/ Contains(x, "\t") \/ Contains(x, "\r")

\* scanstring: i is the index after the opening quote, j the index of the closing one
ScanStringTo(s, i, j) ==
    IF j = 0 THEN PFail("Unterminated string starting at")
    ELSE IF BadInString(SubSeq(s, i, j - 1)) THEN PFail("Invalid control character at")
    ELSE POk(StrVal(SubSeq(s, i, j - 1)), j + 1)
ScanString(s, i) == ScanStringTo(s, i, Find(s, "\"", i))

RECURSIVE ScanOnce(_, _)
RECURSIVE ScanMembers(_, _, _)
RECURSIVE ScanElements(_, _, _)

\* JSONObject's loop, one operator per step.  pairs are the members read so far.
\* more: the index after the "," and the whitespace that follows it
NextMember(s, pairs, more) ==
    IF CharAt(s, more) # "\"" THEN PFail("Expecting property name enclosed in double quotes")
    ELSE ScanMembers(s, more + 1, pairs)
\* next: the index after a member and the whitespace that follows it
AfterMember(s, pairs, next) ==
    IF CharAt(s, next) = "}" THEN POk(DictVal(pairs), next + 1)
    ELSE IF CharAt(s, next) # "," THEN PFail("Expecting ',' delimiter")
    ELSE NextMember(s, pairs, SkipWs(s, next + 1))
\* value: the parse of the member's value
AfterValue(s, pairs, key, value) ==
    IF ~value.ok THEN value
    ELSE AfterMember(s, DictSet(pairs, key, value.val), SkipWs(s, value.pos))
\* colon: the index after the key and the whitespace that follows it
AfterKey(s, pairs, key, colon) ==
    IF CharAt(s, colon) # ":" THEN PFail("Expecting ':' delimiter")
    ELSE AfterValue(s, pairs, key, ScanOnce(s, SkipWs(s, colon + 1)))
\* key: the parse of the member's key
MemberKey(s, pairs, key) ==
    IF ~key.ok THEN key ELSE AfterKey(s, pairs, key.val.s, SkipWs(s, key.pos))
\* i is the index after the opening quote of a key
ScanMembers(s, i, pairs) == MemberKey(s, pairs, ScanString(s, i))

\* JSONArray's loop.  values are the elements read so far.
\* next: the index after an element and the whitespace that follows it
AfterElement(s, values, next) ==
    IF CharAt(s, next) = "]" THEN POk(ListVal(values), next + 1)
    ELSE IF CharAt(s, next) # "," THEN PFail("Expecting ',' delimiter")
    ELSE ScanElements(s, SkipWs(s, next + 1), values)
Element(s, values, value) ==
    IF ~value.ok THEN value
    ELSE AfterElement(s, Append(values, value.val), SkipWs(s, value.pos))
\* i is the index of the next element
ScanElements(s, i, values) == Element(s, values, ScanOnce(s, i))

\* JSONObject's entry: j is the index after "{" and the whitespace that follows it
ScanObject(s, j) ==
    IF CharAt(s, j) = "}" THEN POk(DictVal(<<>>), j + 1)
    ELSE IF CharAt(s, j) # "\"" THEN PFail("Expecting property name enclosed in double quotes")
    ELSE ScanMembers(s, j + 1, <<>>)

\* JSONArray's entry: j is the index after "[" and the whitespace that follows it
ScanArray(s, j) ==
    IF CharAt(s, j) = "]" THEN POk(ListVal(<<>>), j + 1) ELSE ScanElements(s, j, <<>>)

\* scan_once: the value that starts at index i
ScanOnce(s, i) ==
    CASE CharAt(s, i) = "\"" -> ScanString(s, i + 1)
      [] CharAt(s, i) = "{" -> ScanObject(s, SkipWs(s, i + 1))
      [] CharAt(s, i) = "[" -> ScanArray(s, SkipWs(s, i + 1))
      [] OTHER -> PFail("Expecting value")

\* JSONDecoder.decode's end check: only whitespace may follow the value r
DecodeEnd(s, r) ==
    IF ~r.ok THEN r
    ELSE IF SkipWs(s, r.pos) # Len(s) + 1 THEN PFail("Extra data")
    ELSE r

\* json.loads(s)
JsonLoads(s) == DecodeEnd(s, ScanOnce(s, SkipWs(s, 1)))

\* json.dumps(v): the text a model that answers in JSON writes for v
RECURSIVE JsonDumps(_)
RECURSIVE DumpList(_, _)
RECURSIVE DumpPairs(_, _)
DumpList(xs, i) ==
    IF i > Len(xs) THEN ""
    ELSE JsonDumps(xs[i]) \o (IF i < Len(xs) THEN ", " ELSE "") \o DumpList(xs, i + 1)
DumpPairs(ps, i) ==
    IF i > Len(ps) THEN ""
    ELSE "\"" \o ps[i].k \o "\": " \o JsonDumps(ps[i].v)
         \o (IF i < Len(ps) THEN ", " ELSE "") \o DumpPairs(ps, i + 1)
JsonDumps(v) ==
    CASE v.t = "str" -> "\"" \o v.s \o "\""
      [] v.t = "list" -> "[" \o DumpList(v.l, 1) \o "]"
      [] v.t = "dict" -> "{" \o DumpPairs(v.d, 1) \o "}"

(***************************************************************************)
(* Subscripts on a decoded JSON value.  A result is [ok, val, exc].        *)
(***************************************************************************)
Return(val) == [ok |-> TRUE, val |-> val, exc |-> NoExc]
Raise(exc) == [ok |-> FALSE, val |-> StrVal(""), exc |-> exc]

\* r[key] for a str key, r the result of the subscripts before it
GetKey(r, key) ==
    IF ~r.ok THEN r
    ELSE CASE r.val.t = "dict" ->
                IF HasKey(r.val.d, key) THEN Return(Lookup(r.val.d, key)) ELSE Raise(KeyError(key))
           [] r.val.t = "list" ->
                Raise(Exc("TypeError", "list indices must be integers or slices, not str"))
           [] r.val.t = "str" ->
                Raise(Exc("TypeError", "string indices must be integers, not 'str'"))

\* r[0]
GetFirst(r) ==
    IF ~r.ok THEN r
    ELSE CASE r.val.t = "list" ->
                IF Len(r.val.l) > 0 THEN Return(r.val.l[1]) ELSE Raise(IndexError)
           [] r.val.t = "dict" -> Raise(Exc("KeyError", "0"))
           [] r.val.t = "str" ->
                IF Len(r.val.s) > 0 THEN Return(StrVal(CharAt(r.val.s, 1)))
                ELSE Raise(Exc("IndexError", "string index out of range"))

(***************************************************************************)
(* GeminiAPI.generate_text                                                 *)
(* A response of requests.post is                                          *)
(*   [kind |-> "transport", exc]: post raised exc (no connection, ...)     *)
(*   [kind |-> "http", status_code, text, json]: text is the raw body,     *)
(*     read when status_code # 200; json is what response.json() gives,    *)
(*     [ok, val, exc], read when it is 200.                                *)
(* The result is [ok, val, exc, out]: out are the lines printed.           *)
(***************************************************************************)
\* a variant that leaves the raw body out of the message
ErrorMsgWithoutBody(response) ==
    "API request failed with status " \o ToString(response.status_code)

\* f"API request failed with status {response.status_code}: {response.text}"
ErrorMsg(response) ==
    "API request failed with status " \o ToString(response.status_code) \o ": " \o response.text

\* response.json()["candidates"][0]["content"]["parts"][0]["text"]
TextAtPath(response) ==
    GetKey(GetFirst(GetKey(GetKey(GetFirst(GetKey(response.json, "candidates")),
                                  "content"), "parts")), "text")

\* line 42: the text at the path is returned, an exception of a subscript goes up
ReturnText(r) ==
    IF r.ok THEN [ok |-> TRUE, val |-> r.val.s, exc |-> NoExc, out |-> <<>>]
    ELSE [ok |-> FALSE, val |-> "", exc |-> r.exc, out |-> <<>>]

\* lines 44-46: print(error_msg); raise Exception(error_msg)
RaiseStatus(error_msg) ==
    [ok |-> FALSE, val |-> "", exc |-> Exc("Exception", error_msg), out |-> << error_msg >>]

\* lines 36-46, given the response to the request posted by line 36
generate_text(response) ==
    IF response.kind = "transport"
    THEN [ok |-> FALSE, val |-> "", exc |-> response.exc, out |-> <<>>]
    ELSE IF response.status_code = 200 THEN ReturnText(TextAtPath(response))
    ELSE RaiseStatus(ErrorMsg(response))

(***************************************************************************)
(* TravelPlanner.parse_travel_preferences                                  *)
(***************************************************************************)
ExtractPrompt(text) ==
    "\n        Extract travel preferences from the following text and return only a JSON object with these keys:"
    \o "\n        destination, start_date, duration, budget, interests, accommodation_type"
    \o "\n\n        Text: " \o text
    \o "\n        \n        Return only the JSON object, nothing else.\n        "

\* lines 69-70, for a json_str that starts with "{"
CloseBrace(json_str) ==
    IF EndsWith(json_str, "}") THEN json_str ELSE Split1(json_str, "}")[1] \o "}"

\* lines 67-68, for the stripped response: split("{", 1)[1] raises when it holds no "{"
OpenBrace(json_str, parts) ==
    IF StartsWith(json_str, "{") THEN [ok |-> TRUE, val |-> CloseBrace(json_str), exc |-> NoExc]
    ELSE IF Len(parts) < 2 THEN [ok |-> FALSE, val |-> "", exc |-> IndexError]
    ELSE [ok |-> TRUE, val |-> CloseBrace("{" \o parts[2]), exc |-> NoExc]

\* lines 66-70: the text handed to json.loads, or the IndexError of line 68
CoerceJson(response) == OpenBrace(Strip(response), Split1(Strip(response), "{"))

\* line 75: text.split("to")[1].split("for")[0].strip() if "to" in text else ""
FallbackDestination(text) ==
    IF Contains(text, "to")
    THEN IF Len(Split(text, "to")) < 2 THEN Raise(IndexError)
         ELSE Return(StrVal(Strip(Split(Split(text, "to")[2], "for")[1])))
    ELSE Return(StrVal(""))

\* line 77: text.split("for")[1].split("days")[0].strip() if "days" in text else ""
FallbackDuration(text) ==
    IF Contains(text, "days")
    THEN IF Len(Split(text, "for")) < 2 THEN Raise(IndexError)
         ELSE Return(StrVal(Strip(Split(Split(text, "for")[2], "days")[1])))
    ELSE Return(StrVal(""))

\* lines 74-81: the dict literal of the except branch, its values evaluated in order
FallbackDict(destination, duration) ==
    IF ~destination.ok THEN [ok |-> FALSE, val |-> <<>>, exc |-> destination.exc]
    ELSE IF ~duration.ok THEN [ok |-> FALSE, val |-> <<>>, exc |-> duration.exc]
    ELSE [ok |-> TRUE, exc |-> NoExc,
          val |-> << [k |-> "destination", v |-> destination.val],
                     [k |-> "start_date", v |-> StrVal("")],
                     [k |-> "duration", v |-> duration.val],
                     [k |-> "budget", v |-> StrVal("")],
                     [k |-> "interests", v |-> ListVal(<<>>)],
                     [k |-> "accommodation_type", v |-> StrVal("")] >>]

Fallback(text) == FallbackDict(FallbackDestination(text), FallbackDuration(text))

\* lines 72-81: except Exception as e, after the lines printed so far; fb is Fallback(text)
ExceptWith(fb, e, printed) ==
    [ok |-> fb.ok, val |-> fb.val, exc |-> fb.exc,
     out |-> printed \o << "Error parsing preferences: " \o e.msg >>]

ParseExcept(text, e, printed) == ExceptWith(Fallback(text), e, printed)

\* line 71: return json.loads(json_str)
ParseLoaded(text, loaded, printed) ==
    IF ~loaded.ok THEN ParseExcept(text, loaded.exc, printed)
    ELSE [ok |-> TRUE, val |-> loaded.val.d, exc |-> NoExc, out |-> printed]

\* lines 66-71, for the json_str of lines 66-70
ParseCoerced(text, json_str, printed) ==
    IF ~json_str.ok THEN ParseExcept(text, json_str.exc, printed)
    ELSE ParseLoaded(text, JsonLoads(json_str.val), printed)

\* lines 64-81, for what generate_text gave
ParseGenerated(text, generated) ==
    IF ~generated.ok THEN ParseExcept(text, generated.exc, generated.out)
    ELSE ParseCoerced(text, CoerceJson(generated.val), generated.out)

\* lines 63-81, given the response to the request posted by line 64
parse_travel_preferences(text, response) == ParseGenerated(text, generate_text(response))

(***************************************************************************)
(* TravelPlanner.generate_itinerary and get_travel_tips                    *)
(***************************************************************************)
ItineraryPrompt(preferences) ==
    "\n        Create a detailed day-by-day travel itinerary based on these preferences:"
    \o "\n        Destination: " \o FmtGet(preferences, "destination")
    \o "\n        Duration: " \o FmtGet(preferences, "duration") \o " days"
    \o "\n        Budget: " \o FmtGet(preferences, "budget")
    \o "\n        Interests: " \o FmtGet(preferences, "interests")
    \o "\n        Accommodation: " \o FmtGet(preferences, "accommodation_type")
    \o "\n\n        Format the itinerary day by day with activities, recommended times, and estimated costs."
    \o "\n        Use bullet points for each day and ensure the output is well-structured and easy to read."
    \o "\n        "

\* a variant that lets the client's exception go up instead of returning the fixed message
ItineraryOrRaise(generated) ==
    IF generated.ok THEN generated
    ELSE [ok |-> FALSE, exc |-> generated.exc, val |-> "", out |-> generated.out]

\* lines 96-100, for what generate_text gave
ItineraryOrFallback(generated) ==
    IF generated.ok THEN generated
    ELSE [ok |-> TRUE, exc |-> NoExc,
          val |-> "Unable to generate itinerary. Please check your API key and try again.",
          out |-> generated.out \o << "Error generating itinerary: " \o generated.exc.msg >>]

\* lines 96-100, given the response to the request posted by line 97
generate_itinerary(response) == ItineraryOrFallback(generate_text(response))

\* f"Provide 3-5 essential travel tips for visiting {destination}."
TipsPrompt(destination) ==
    "Provide 3-5 essential travel tips for visiting " \o destination \o "."

\* a variant that returns an empty str when the client fails
TipsOrEmpty(generated) ==
    IF generated.ok THEN generated
    ELSE [ok |-> TRUE, exc |-> NoExc, val |-> "",
          out |-> generated.out \o << "Error getting travel tips: " \o generated.exc.msg >>]

\* lines 105-109, for what generate_text gave
TipsOrFallback(generated) ==
    IF generated.ok THEN generated
    ELSE [ok |-> TRUE, exc |-> NoExc,
          val |-> "Unable to generate travel tips. Please check your API key and try again.",
          out |-> generated.out \o << "Error getting travel tips: " \o generated.exc.msg >>]

\* lines 105-109, given the response to the request posted by line 106
get_travel_tips(response) == TipsOrFallback(generate_text(response))

(***************************************************************************)
(* The environment: user texts and the endpoint's responses                *)
(***************************************************************************)
Words == {"to", "for", "days", "Rome"}

\* the texts of at most n words, a space between two words
RECURSIVE WordTexts(_)
WordTexts(n) ==
    IF n = 0 THEN {""}
    ELSE WordTexts(n - 1)
         \cup Words
         \cup {t \o " " \o w : t \in WordTexts(n - 1) \ {""}, w \in Words}

\* the sentence of the placeholder of line 176, for a destination and a day count
Sentence(destination, n) == "I want to plan a trip to " \o destination \o " for " \o n \o " days"

Sentences == {Sentence(dest, "10") : dest \in {"Japan", "Paris"}}

Inputs == WordTexts(MaxWords) \cup Sentences

Pair(key, val) == [k |-> key, v |-> val]

\* the preferences of a traveller to Japan, all six keys
FullPrefs ==
    << Pair("destination", StrVal("Japan")),
       Pair("start_date", StrVal("")),
       Pair("duration", StrVal("10")),
       Pair("budget", StrVal("$5000")),
       Pair("interests", ListVal(<< StrVal("food"), StrVal("temples") >>)),
       Pair("accommodation_type", StrVal("boutique hotel")) >>

\* the objects a model may answer with, nested at most n deep below the top
RECURSIVE Objects(_)
Objects(n) ==
    IF n = 0 THEN {<<>>, FullPrefs}
    ELSE Objects(n - 1) \cup {<< Pair("destination", DictVal(o)) >> : o \in Objects(n - 1)}

\* prose before and after the object, without braces
Prefaces == {"", "Sure! Here you go: "}
Closings == {"", "\n", " Hope that helps!"}

\* an answer that embeds an object: [obj, pre, post, text]
Embedded ==
    {[obj |-> o, pre |-> a, post |-> b, text |-> a \o JsonDumps(DictVal(o)) \o b] :
        o \in Objects(MaxDepth), a \in Prefaces, b \in Closings}

\* answers to the extraction prompt
ExtractionTexts == {e.text : e \in Embedded} \cup {"", "I cannot help with that.", "{"}

\* answers to the itinerary and tips prompts
GeneratedTexts == {"Day 1: temples\n- 09:00 Senso-ji ($0)", "\n* Carry cash. \n"}

\* the body {"candidates": [{"content": {"parts": [{"text": t}]}}]}
CandidatesBody(t) ==
    DictVal(<< Pair("candidates", ListVal(<< DictVal(<< Pair("content",
        DictVal(<< Pair("parts", ListVal(<< DictVal(<< Pair("text", StrVal(t)) >>) >>)) >>)) >>) >>)) >>)

Http(status, text, json) ==
    [kind |-> "http", status_code |-> status, text |-> text, json |-> json, exc |-> NoExc]

\* 200 with the documented body
Ok200(t) == Http(200, "", Return(CandidatesBody(t)))

\* 200 with a body that lacks the documented path
Malformed ==
    { Http(200, "", Return(DictVal(<< Pair("promptFeedback", StrVal("BLOCKED")) >>))),
      Http(200, "", Return(DictVal(<< Pair("candidates", ListVal(<<>>)) >>))),
      Http(200, "", Raise(JSONDecodeError("Expecting value"))) }

\* statuses other than 200
Rejected ==
    { Http(500, "server error", Raise(JSONDecodeError("Expecting value"))),
      Http(403, "{\"error\": \"API key not valid\"}",
           Return(DictVal(<< Pair("error", StrVal("API key not valid")) >>))) }

\* requests.post raised
Transport ==
    { [kind |-> "transport", status_code |-> 0, text |-> "", json |-> Raise(NoExc),
       exc |-> Exc("ConnectionError", "Connection refused")] }

Failures == Malformed \cup Rejected \cup Transport

\* the responses to a request that carries the extraction prompt
ExtractionResponses == {Ok200(t) : t \in ExtractionTexts} \cup Failures

\* the responses to a request that carries the itinerary or the tips prompt
GenerationResponses == {Ok200(t) : t \in GeneratedTexts} \cup Failures

(***************************************************************************)
(* State                                                                   *)
(***************************************************************************)
VARIABLES
    pc,           \* where plan_trip stands
    user_input,   \* plan_trip's argument
    calls,        \* the prompts posted so far, in order
    responses,    \* the responses received so far, in order
    outcomes,     \* what generate_text returned or raised for each response
    log,          \* the lines printed so far
    preferences,  \* [st, val, exc]: parse_travel_preferences's return value or exception
    itinerary,    \* [st, val]: generate_itinerary's return value
    tips,         \* [st, val]: get_travel_tips's return value
    result        \* [st, val]: plan_trip's return value, st = "None" for None

vars == << pc, user_input, calls, responses, outcomes, log, preferences, itinerary, tips, result >>

Pending == [st |-> "pending", val |-> <<>>, exc |-> NoExc]

Init ==
    /\ user_input \in Inputs
    /\ pc = "parse"
    /\ calls = <<>>
    /\ responses = <<>>
    /\ outcomes = <<>>
    /\ log = <<>>
    /\ preferences = Pending
    /\ itinerary = Pending
    /\ tips = Pending
    /\ result = Pending

\* what a callee handed back: a return value, or an exception on its way up
Settled(r) ==
    [st |-> IF r.ok THEN "returned" ELSE "raised", val |-> r.val, exc |-> r.exc]

\* generate_text's result without the lines it printed
Bare(g) == [ok |-> g.ok, val |-> g.val, exc |-> g.exc]

Outcome(response) == Bare(generate_text(response))

\* a variant that returns None without printing
PlanTripExceptSilent(e) ==
    [result |-> [st |-> "None", val |-> <<>>, exc |-> NoExc], out |-> <<>>]

\* lines 128-130: except Exception as e: print, return None
PlanTripExcept(e) ==
    [result |-> [st |-> "None", val |-> <<>>, exc |-> NoExc],
     out |-> << "Error in plan_trip: " \o e.msg >>]

\* a variant that stores the tips under "itinerary" and the itinerary under "additional_tips"
PlanTripReturnSwapped(prefs, itin, tip) ==
    [result |-> [st |-> "dict", exc |-> NoExc,
                 val |-> [preferences |-> prefs, itinerary |-> tip, additional_tips |-> itin]],
     out |-> <<>>]

\* lines 123-127: the dict plan_trip returns
PlanTripReturn(prefs, itin, tip) ==
    [result |-> [st |-> "dict", exc |-> NoExc,
                 val |-> [preferences |-> prefs, itinerary |-> itin, additional_tips |-> tip]],
     out |-> <<>>]

(***************************************************************************)
(* plan_trip, one step per request posted and per response received        *)
(***************************************************************************)
\* a step's callee returned r: plan_trip goes on to `next`
Continue(r, next) ==
    /\ log' = log \o r.out
    /\ pc' = next
    /\ UNCHANGED result

\* plan_trip returns what ret holds, after the lines `printed` and those of ret
Finish(printed, ret) ==
    /\ log' = log \o printed \o ret.out
    /\ pc' = "done"
    /\ result' = ret.result

\* line 115 into lines 55-64: the extraction request is posted
ParseSend ==
    /\ pc = "parse"
    /\ calls' = Append(calls, ExtractPrompt(user_input))
    /\ pc' = "parse_wait"
    /\ UNCHANGED << user_input, responses, outcomes, log, preferences, itinerary, tips, result >>

\* lines 64-81, then line 115's assignment or lines 128-130
ParseRecv ==
    /\ pc = "parse_wait"
    /\ \E response \in ExtractionResponses :
         \E r \in {parse_travel_preferences(user_input, response)} :
             /\ responses' = Append(responses, response)
             /\ outcomes' = Append(outcomes, Outcome(response))
             /\ preferences' = Settled(r)
             /\ IF r.ok THEN Continue(r, "itinerary") ELSE Finish(r.out, PlanTripExcept(r.exc))
    /\ UNCHANGED << user_input, calls, itinerary, tips >>

\* line 118 into lines 85-97: the itinerary request is posted
ItinerarySend ==
    /\ pc = "itinerary"
    /\ calls' = Append(calls, ItineraryPrompt(preferences.val))
    /\ pc' = "itinerary_wait"
    /\ UNCHANGED << user_input, responses, outcomes, log, preferences, itinerary, tips, result >>

\* a variant that posts the itinerary request once more when the client failed
ItineraryRecvRetry ==
    /\ pc = "itinerary_wait"
    /\ \E response \in GenerationResponses :
         \E r \in {generate_itinerary(response)} :
             /\ responses' = Append(responses, response)
             /\ outcomes' = Append(outcomes, Outcome(response))
             /\ itinerary' = Settled(r)
             /\ Continue(r, IF response \in Failures /\ Len(calls) < 3 THEN "itinerary" ELSE "tips")
    /\ UNCHANGED << user_input, calls, preferences, tips >>

\* lines 97-100, then line 118's assignment or lines 128-130
ItineraryRecv ==
    /\ pc = "itinerary_wait"
    /\ \E response \in GenerationResponses :
         \E r \in {generate_itinerary(response)} :
             /\ responses' = Append(responses, response)
             /\ outcomes' = Append(outcomes, Outcome(response))
             /\ itinerary' = Settled(r)
             /\ IF r.ok THEN Continue(r, "tips") ELSE Finish(r.out, PlanTripExcept(r.exc))
    /\ UNCHANGED << user_input, calls, preferences, tips >>

\* line 121 into lines 104-106: the tips request is posted
TipsSend ==
    /\ pc = "tips"
    /\ calls' = Append(calls, TipsPrompt(FmtGetOrEmpty(preferences.val, "destination")))
    /\ pc' = "tips_wait"
    /\ UNCHANGED << user_input, responses, outcomes, log, preferences, itinerary, tips, result >>

\* lines 106-109, then lines 121-127 or lines 128-130
TipsRecv ==
    /\ pc = "tips_wait"
    /\ \E response \in GenerationResponses :
         \E r \in {get_travel_tips(response)} :
             /\ responses' = Append(responses, response)
             /\ outcomes' = Append(outcomes, Outcome(response))
             /\ tips' = Settled(r)
             /\ IF r.ok
                THEN Finish(r.out, PlanTripReturn(preferences.val, itinerary.val, r.val))
                ELSE Finish(r.out, PlanTripExcept(r.exc))
    /\ UNCHANGED << user_input, calls, preferences, itinerary >>

Next ==
    \/ ParseSend
    \/ ParseRecv
    \/ ItinerarySend
    \/ ItineraryRecv
    \/ TipsSend
    \/ TipsRecv

Spec == Init /\ [][Next]_vars

(***************************************************************************)
(* Claims                                                                  *)
(***************************************************************************)
\* the client call that response i answers failed: a status other than 200, a
\* transport error, or a 200 body without candidates[0].content.parts[0].text
ClientFailed(i) == responses[i] \in Failures

ItineraryFallbackMessage ==
    "Unable to generate itinerary. Please check your API key and try again."
TipsFallbackMessage ==
    "Unable to generate travel tips. Please check your API key and try again."

SixKeys == {"destination", "start_date", "duration", "budget", "interests", "accommodation_type"}

\* C1: parse_travel_preferences never raises and never returns None, whatever
\* the user text and whatever the client does.
C1_ExtractionTotal == preferences.st \in {"pending", "returned"}

\* every client call of a finished plan_trip failed
AllCallsFailed ==
    /\ pc = "done"
    /\ Len(responses) >= 1
    /\ \A i \in 1..Len(responses) : ClientFailed(i)

\* the except branch of parse_travel_preferences raises on this text
FallbackRaises(text) == Contains(text, "days") /\ ~Contains(text, "for")

\* C2 as stated: when every client call of one plan_trip fails, plan_trip
\* returns None and at least one line was logged.
C2_NoneOnTotalFailure == AllCallsFailed => (result.st = "None" /\ Len(log) >= 1)

\* C2 amended: when every client call of one plan_trip fails, at least one line
\* was logged, and plan_trip returns None only when the heuristic fallback itself
\* raised (the text holds "days" but not "for"); otherwise it returns a complete
\* record: heuristic preferences with the six keys and the two fixed messages.
C2_FallbackRecordOnTotalFailure ==
    AllCallsFailed =>
        /\ Len(log) >= 1
        /\ IF FallbackRaises(user_input)
           THEN result.st = "None" /\ Len(responses) = 1
           ELSE /\ result.st = "dict"
                /\ Len(responses) = 3
                /\ result.val.itinerary = ItineraryFallbackMessage
                /\ result.val.additional_tips = TipsFallbackMessage
                /\ {result.val.preferences[i].k : i \in 1..Len(result.val.preferences)} = SixKeys
                /\ Lookup(result.val.preferences, "start_date") = StrVal("")
                /\ Lookup(result.val.preferences, "budget") = StrVal("")
                /\ Lookup(result.val.preferences, "interests") = ListVal(<<>>)
                /\ Lookup(result.val.preferences, "accommodation_type") = StrVal("")

C2_Witness == AllCallsFailed /\ result.st = "dict" /\ user_input = "to Rome"

\* C3: whenever the client call fails, generate_itinerary returns exactly its
\* fixed message and get_travel_tips exactly its own; neither raises and
\* neither returns an empty str.
C3_FallbackMessages ==
    /\ (Len(responses) >= 2 /\ ClientFailed(2)) =>
            itinerary = [st |-> "returned", val |-> ItineraryFallbackMessage, exc |-> NoExc]
    /\ (Len(responses) >= 3 /\ ClientFailed(3)) =>
            tips = [st |-> "returned", val |-> TipsFallbackMessage, exc |-> NoExc]
    /\ itinerary.st # "raised" /\ tips.st # "raised"

C3_Witness ==
    /\ Len(responses) = 3
    /\ responses[2] \in Malformed
    /\ responses[3] \in Rejected
    /\ itinerary.val = ItineraryFallbackMessage
    /\ tips.val = TipsFallbackMessage

\* C4: when the client fails, the destination of the returned record is the
\* part of the user text between "to" and "for": for "I want to plan a trip to
\* <D> for <N> days" it is <D>.
C4_FallbackDestination ==
    \A dest \in {"Japan", "Paris"} :
        (/\ user_input = Sentence(dest, "10")
         /\ Len(responses) >= 1
         /\ ClientFailed(1)
         /\ preferences.st = "returned")
        => Lookup(preferences.val, "destination") = StrVal(dest)

\* C5: when the answer is a JSON object with prose around it, the record
\* returned is that object, also when the object holds nested objects and
\* when prose follows it.
C5_JsonCoercion ==
    \A e \in Embedded :
        (Len(responses) >= 1 /\ responses[1] = Ok200(e.text))
        => (preferences.st = "returned" /\ preferences.val = e.obj)

\* the diagnostic line of plan_trip's except branch is in the log
PlanTripLogged == \E j \in 1..Len(log) : StartsWith(log[j], "Error in plan_trip: ")

SomeStepRaised ==
    preferences.st = "raised" \/ itinerary.st = "raised" \/ tips.st = "raised"

\* C6: plan_trip never raises and returns either None or a record with the
\* three fields preferences, itinerary and additional_tips; None exactly when
\* an exception escaped one of its three steps, and then a line was logged.
C6_AllOrNothing ==
    /\ result.st \in {"pending", "None", "dict"}
    /\ (pc = "done") <=> (result.st # "pending")
    /\ result.st = "dict" =>
            /\ DOMAIN result.val = {"preferences", "itinerary", "additional_tips"}
            /\ preferences.st = "returned" /\ result.val.preferences = preferences.val
            /\ itinerary.st = "returned" /\ result.val.itinerary = itinerary.val
            /\ tips.st = "returned" /\ result.val.additional_tips = tips.val
    /\ (pc = "done") => ((result.st = "None") <=> SomeStepRaised)
    /\ result.st = "None" => PlanTripLogged

C6_Witness == result.st = "None" /\ preferences.st = "raised" /\ PlanTripLogged

IsExtractionPrompt(p) ==
    StartsWith(p, "\n        Extract travel preferences from the following text")
IsItineraryPrompt(p) == StartsWith(p, "\n        Create a detailed day-by-day travel itinerary")
IsTipsPrompt(p) == StartsWith(p, "Provide 3-5 essential travel tips for visiting ")

\* C7: one plan_trip posts at most three requests, the extraction prompt, then
\* the itinerary prompt, then the tips prompt; a request is posted only when
\* every earlier one has been answered, and none is posted twice.
C7_CallOrder ==
    /\ Len(calls) <= 3
    /\ Len(calls) >= 1 => IsExtractionPrompt(calls[1])
    /\ Len(calls) >= 2 => IsItineraryPrompt(calls[2]) /\ ~IsExtractionPrompt(calls[2])
    /\ Len(calls) >= 3 => IsTipsPrompt(calls[3]) /\ ~IsItineraryPrompt(calls[3])
    /\ Len(calls) - Len(responses) \in {0, 1}
    /\ (pc \in {"parse_wait", "itinerary_wait", "tips_wait"}) <=> (Len(calls) = Len(responses) + 1)

C7_Witness == Len(calls) = 3 /\ Len(responses) = 3 /\ ClientFailed(1) /\ ClientFailed(2)

\* the 200 responses with the documented body, each with the text at its path
Answers == {[text |-> t, response |-> Ok200(t)] : t \in ExtractionTexts \cup GeneratedTexts}

\* C8: on status 200 generate_text returns the text at
\* candidates[0].content.parts[0].text verbatim; on any other status it raises
\* an error whose message holds the status code and the raw body, and that
\* message is in the log.
C8_ClientResult ==
    \A i \in 1..Len(responses) :
        /\ \A a \in Answers :
              responses[i] = a.response => outcomes[i] = [ok |-> TRUE, val |-> a.text, exc |-> NoExc]
        /\ (responses[i].kind = "http" /\ responses[i].status_code # 200) =>
              /\ ~outcomes[i].ok
              /\ Contains(outcomes[i].exc.msg, ToString(responses[i].status_code))
              /\ Contains(outcomes[i].exc.msg, responses[i].text)
              /\ \E j \in 1..Len(log) : log[j] = outcomes[i].exc.msg

C8_Witness ==
    /\ Len(responses) = 2
    /\ responses[1] = Http(500, "server error", Raise(JSONDecodeError("Expecting value")))
    /\ responses[2] = Ok200("\n* Carry cash. \n")
    /\ Contains(outcomes[1].exc.msg, "500") /\ Contains(outcomes[1].exc.msg, "server error")

\* answers that are a JSON object and nothing else but whitespace
PureJson == {e \in Embedded : e.pre = "" /\ e.post \in {"", "\n"}}

\* the runs in which the extraction prompt is answered with valid JSON and the
\* other two prompts with texts
EndToEndCases ==
    {[obj |-> e.obj, itinerary |-> t2, tips |-> t3,
      responses |-> << Ok200(e.text), Ok200(t2), Ok200(t3) >>] :
        e \in PureJson, t2 \in GeneratedTexts, t3 \in GeneratedTexts}

\* C9: when the client answers the extraction prompt with valid JSON and the
\* other two prompts with non-empty texts, plan_trip returns the parsed object
\* as preferences and the two texts verbatim as itinerary and additional_tips,
\* and the tips prompt names the destination of those preferences.
C9_EndToEnd ==
    pc = "done" =>
        \A c \in EndToEndCases :
            responses = c.responses
            => /\ result.st = "dict"
               /\ result.val = [preferences |-> c.obj, itinerary |-> c.itinerary,
                                additional_tips |-> c.tips]
               /\ (HasKey(c.obj, "destination") /\ Lookup(c.obj, "destination").t = "str") =>
                     calls[3] = "Provide 3-5 essential travel tips for visiting "
                                \o Lookup(c.obj, "destination").s \o "."

C9_Witness ==
    /\ pc = "done"
    /\ responses = << Ok200(JsonDumps(DictVal(FullPrefs))),
                      Ok200("Day 1: temples\n- 09:00 Senso-ji ($0)"),
                      Ok200("\n* Carry cash. \n") >>
    /\ result.st = "dict"
    /\ calls[3] = "Provide 3-5 essential travel tips for visiting Japan."

\* C10: every value parse_travel_preferences returns, from the structured parse
\* or from the fallback, holds the six keys.
C10_FixedShape ==
    preferences.st = "returned" => \A key \in SixKeys : HasKey(preferences.val, key)

====
